---- MODULE Spec2Model ----
(***************************************************************************)
(* Model of rustful's MaybeUtf8<String, Vec<u8>> (src/context/maybe_utf8.rs)*)
(* A String is modelled as what it is in memory: a byte vector that the     *)
(* type promises to be valid UTF-8.  A byte is a number in 0..255, a char   *)
(* is a Unicode scalar value.                                               *)
(***************************************************************************)
EXTENDS Integers, Sequences, FiniteSets, TLC

\* ---------------------------------------------------------------- bounds
MaxLen == 4        \* longest content (bytes) of the mutated value
MaxArg == 2        \* longest byte slice handed to push_bytes
MaxChars == 2      \* longest string (in chars) handed to push_str
MaxInit == 3       \* longest input a value is built from
MaxEqInit == 1     \* longest input a compared value is built from
MaxEqLen == 2      \* longest content of a compared value

\* The bytes the inputs are drawn from: 'a', the two bytes of U+00E9 (C3 A9),
\* the lead and middle byte of U+20A9 (E2 82 A9), and FF, which never occurs
\* in UTF-8.
ByteSet == {97, 195, 169, 226, 130, 255}
\* The chars the inputs are drawn from: 'a', U+00E9, U+20A9.
CharSet == {97, 233, 8361}

SeqsUpTo(S, n) == UNION {[1..k -> S] : k \in 0..n}

\* ------------------------------------------------- std: UTF-8 machinery
\* char::encode_utf8, as used by String::push.
encode_utf8(c) ==
  IF c < 128 THEN <<c>>
  ELSE IF c < 2048 THEN <<192 + (c \div 64), 128 + (c % 64)>>
  ELSE IF c < 65536 THEN <<224 + (c \div 4096), 128 + ((c \div 64) % 64), 128 + (c % 64)>>
  ELSE <<240 + (c \div 262144), 128 + ((c \div 4096) % 64),
         128 + ((c \div 64) % 64), 128 + (c % 64)>>

RECURSIVE EncodeStr(_)
\* The bytes of the string made of the chars cs.
EncodeStr(cs) ==
  IF cs = <<>> THEN <<>> ELSE encode_utf8(Head(cs)) \o EncodeStr(Tail(cs))

\* core::str::utf8_char_width: the length a lead byte announces, 0 if the
\* byte cannot start a sequence.
utf8_char_width(b) ==
  IF b < 128 THEN 1
  ELSE IF b \in 194..223 THEN 2
  ELSE IF b \in 224..239 THEN 3
  ELSE IF b \in 240..244 THEN 4
  ELSE 0

IsCont(b) == b \in 128..191

\* The range of the second byte of a three byte sequence.
SecondOk3(first, second) ==
  CASE first = 224 -> second \in 160..191
    [] first \in 225..236 -> second \in 128..191
    [] first = 237 -> second \in 128..159
    [] first \in 238..239 -> second \in 128..191
    [] OTHER -> FALSE

\* The range of the second byte of a four byte sequence.
SecondOk4(first, second) ==
  CASE first = 240 -> second \in 144..191
    [] first \in 241..243 -> second \in 128..191
    [] first = 244 -> second \in 128..143
    [] OTHER -> FALSE

\* One step of the validation loop on a non-empty bs: either a whole
\* well-formed sequence (valid, its length), or the longest prefix that could
\* still have started one (not valid, its length, at least 1).
next_chunk(bs) ==
  LET first == bs[1]
      w == utf8_char_width(first)
      n == Len(bs)
  IN CASE w = 1 -> [valid |-> TRUE, len |-> 1]
       [] w = 2 -> IF n >= 2 /\ IsCont(bs[2])
                   THEN [valid |-> TRUE, len |-> 2]
                   ELSE [valid |-> FALSE, len |-> 1]
       [] w = 3 -> IF ~(n >= 2 /\ SecondOk3(first, bs[2]))
                   THEN [valid |-> FALSE, len |-> 1]
                   ELSE IF ~(n >= 3 /\ IsCont(bs[3]))
                   THEN [valid |-> FALSE, len |-> 2]
                   ELSE [valid |-> TRUE, len |-> 3]
       [] w = 4 -> IF ~(n >= 2 /\ SecondOk4(first, bs[2]))
                   THEN [valid |-> FALSE, len |-> 1]
                   ELSE IF ~(n >= 3 /\ IsCont(bs[3]))
                   THEN [valid |-> FALSE, len |-> 2]
                   ELSE IF ~(n >= 4 /\ IsCont(bs[4]))
                   THEN [valid |-> FALSE, len |-> 3]
                   ELSE [valid |-> TRUE, len |-> 4]
       [] OTHER -> [valid |-> FALSE, len |-> 1]

RECURSIVE from_utf8_ok(_)
\* std::str::from_utf8(bs).is_ok()
from_utf8_ok(bs) ==
  IF bs = <<>> THEN TRUE
  ELSE LET c == next_chunk(bs)
       IN c.valid /\ from_utf8_ok(SubSeq(bs, c.len + 1, Len(bs)))

\* U+FFFD REPLACEMENT CHARACTER, encoded.
REPLACEMENT == <<239, 191, 189>>

RECURSIVE LossyBytes(_)
\* The bytes from_utf8_lossy produces: well-formed sequences are copied, each
\* ill-formed chunk becomes one REPLACEMENT.
LossyBytes(bs) ==
  IF bs = <<>> THEN <<>>
  ELSE LET c == next_chunk(bs)
       IN (IF c.valid THEN SubSeq(bs, 1, c.len) ELSE REPLACEMENT)
          \o LossyBytes(SubSeq(bs, c.len + 1, Len(bs)))

\* String::from_utf8_lossy: Cow::Borrowed of the input when it is valid,
\* Cow::Owned of the repaired copy otherwise.
from_utf8_lossy(bs) ==
  IF from_utf8_ok(bs)
  THEN [borrowed |-> TRUE, str |-> bs]
  ELSE [borrowed |-> FALSE, str |-> LossyBytes(bs)]

\* ------------------------------------------------------------ the value
Utf8(s) == [tag |-> "Utf8", data |-> s]
NotUtf8(v) == [tag |-> "NotUtf8", data |-> v]

None == <<>>
Some(x) == <<x>>

\* String::push
StringPush(s, c) == s \o encode_utf8(c)

\* String::push_str
StringPushStr(s, string) == s \o string

\* utils::BytesExt::push_bytes for Vec<u8>
VecPushBytes(v, bytes) == v \o bytes

as_utf8_unchecked(self) == Some(self.data)

as_utf8(self) ==
  CASE self.tag = "Utf8" -> Some(self.data)
    [] self.tag = "NotUtf8" -> None

as_utf8_lossy(self) ==
  CASE self.tag = "Utf8" -> [borrowed |-> TRUE, str |-> self.data]
    [] self.tag = "NotUtf8" -> from_utf8_lossy(self.data)

as_bytes(self) ==
  CASE self.tag = "Utf8" -> self.data
    [] self.tag = "NotUtf8" -> self.data

as_ref(self) ==
  CASE self.tag = "Utf8" -> self.data
    [] self.tag = "NotUtf8" -> self.data

from_string(string) == Utf8(string)

from_vec_lossy(bytes) ==
  IF from_utf8_ok(bytes) THEN Utf8(bytes) ELSE NotUtf8(LossyBytes(bytes))

from_vec_raw(bytes) == NotUtf8(bytes)

\* From<Vec<u8>>: e.into_bytes() gives back the bytes that failed to validate.
from_vec(bytes) ==
  IF from_utf8_ok(bytes) THEN Utf8(bytes) ELSE NotUtf8(bytes)

into_vec_drop(self) ==
  CASE self.tag = "Utf8" -> <<>>
    [] self.tag = "NotUtf8" -> self.data

\* Into<Vec<u8>>
into_vec(self) ==
  CASE self.tag = "Utf8" -> self.data
    [] self.tag = "NotUtf8" -> self.data

into_string_unchecked(self) == self.data

\* Into<String>
into_string(self) ==
  CASE self.tag = "Utf8" -> self.data
    [] self.tag = "NotUtf8" ->
         LET bytes == self.data
             cow == from_utf8_lossy(bytes)
         IN IF cow.borrowed THEN bytes ELSE cow.str

push_char_lowbyte(self, c) ==
  CASE self.tag = "Utf8" -> Utf8(StringPush(self.data, c))
    [] self.tag = "NotUtf8" -> NotUtf8(self.data \o <<c % 256>>)

\* push_char.  In the NotUtf8 arm the Vec<u8> is transmuted to the String that
\* wraps it; String is a struct whose only field is that Vec<u8>, so the push
\* lands in the vector itself.
push_char(self, c) ==
  CASE self.tag = "Utf8" -> Utf8(StringPush(self.data, c))
    [] self.tag = "NotUtf8" -> NotUtf8(StringPush(self.data, c))

push_str(self, string) ==
  CASE self.tag = "Utf8" -> Utf8(StringPushStr(self.data, string))
    [] self.tag = "NotUtf8" -> NotUtf8(VecPushBytes(self.data, string))

push_bytes_noreclass(self, bytes) ==
  IF from_utf8_ok(bytes)
  THEN push_str(self, bytes)
  ELSE NotUtf8(VecPushBytes(into_vec(self), bytes))

push_bytes_unchecked(self, bytes) == push_str(self, bytes)

push_bytes_downgrade(self, bytes) == NotUtf8(VecPushBytes(into_vec(self), bytes))

\* push_bytes: the Err arm takes the value out, flattens it, appends, and
\* builds the value again with From<Vec<u8>>.
push_bytes(self, bytes) ==
  IF from_utf8_ok(bytes)
  THEN push_str(self, bytes)
  ELSE from_vec(VecPushBytes(into_vec(self), bytes))

eq_derived(self, other) == self = other

\* PartialEq::eq
eq(self, other) == as_ref(self) = as_ref(other)

\* Hash::hash: what the hasher is fed, the slice's length and its bytes.
hash(self) == <<Len(as_ref(self))>> \o as_ref(self)

\* ------------------------------------------------------------ the inputs
Strings == {EncodeStr(cs) : cs \in SeqsUpTo(CharSet, MaxChars)}
ByteArgs == SeqsUpTo(ByteSet, MaxArg)

VARIABLES val, other, last
vars == <<val, other, last>>

NoOp == [op |-> "none", arg |-> <<>>, pre |-> Utf8(<<>>)]

\* ------------------------------------------- Spec: build, then push
\* The value has just been built from a string or from a byte vector.
Init ==
  /\ \/ \E s \in Strings :
          /\ Len(s) <= MaxInit
          /\ val = from_string(s)
          /\ last = [op |-> "from_string", arg |-> s, pre |-> Utf8(<<>>)]
     \/ \E b \in SeqsUpTo(ByteSet, MaxInit) :
          /\ val = from_vec(b)
          /\ last = [op |-> "from_vec", arg |-> b, pre |-> Utf8(<<>>)]
  /\ other = Utf8(<<>>)

PushChar ==
  \E c \in CharSet :
    /\ Len(val.data) + Len(encode_utf8(c)) <= MaxLen
    /\ val' = push_char(val, c)
    /\ last' = [op |-> "push_char", arg |-> <<c>>, pre |-> val]
    /\ UNCHANGED other

PushStr ==
  \E s \in Strings :
    /\ Len(val.data) + Len(s) <= MaxLen
    /\ val' = push_str(val, s)
    /\ last' = [op |-> "push_str", arg |-> s, pre |-> val]
    /\ UNCHANGED other

PushBytes ==
  \E b \in ByteArgs :
    /\ Len(val.data) + Len(b) <= MaxLen
    /\ val' = push_bytes(val, b)
    /\ last' = [op |-> "push_bytes", arg |-> b, pre |-> val]
    /\ UNCHANGED other

Next == PushChar \/ PushStr \/ PushBytes

Spec == Init /\ [][Next]_vars

\* ------------------------------------ SpecEq: two values side by side
\* The left value is built with From; the right one is built with From or
\* directly with the public NotUtf8 variant.  Both are then pushed to.
InitEq ==
  /\ \/ \E s \in Strings : Len(s) <= MaxEqInit /\ val = from_string(s)
     \/ \E b \in SeqsUpTo(ByteSet, MaxEqInit) : val = from_vec(b)
  /\ \E b \in SeqsUpTo(ByteSet, MaxEqInit) : other \in {from_vec(b), NotUtf8(b)}
  /\ last = NoOp

EqPushChar ==
  \E c \in CharSet :
    /\ Len(val.data) + Len(encode_utf8(c)) <= MaxEqLen
    /\ val' = push_char(val, c)
    /\ UNCHANGED <<other, last>>

EqPushStr ==
  \E s \in Strings :
    /\ Len(val.data) + Len(s) <= MaxEqLen
    /\ val' = push_str(val, s)
    /\ UNCHANGED <<other, last>>

EqPushBytes ==
  \E b \in ByteArgs :
    /\ Len(val.data) + Len(b) <= MaxEqLen
    /\ val' = push_bytes(val, b)
    /\ UNCHANGED <<other, last>>

OtherPushChar ==
  \E c \in CharSet :
    /\ Len(other.data) + Len(encode_utf8(c)) <= MaxEqLen
    /\ other' = push_char(other, c)
    /\ UNCHANGED <<val, last>>

OtherPushStr ==
  \E s \in Strings :
    /\ Len(other.data) + Len(s) <= MaxEqLen
    /\ other' = push_str(other, s)
    /\ UNCHANGED <<val, last>>

OtherPushBytes ==
  \E b \in ByteArgs :
    /\ Len(other.data) + Len(b) <= MaxEqLen
    /\ other' = push_bytes(other, b)
    /\ UNCHANGED <<val, last>>

NextEq ==
  \/ EqPushChar
  \/ EqPushStr
  \/ EqPushBytes
  \/ OtherPushChar
  \/ OtherPushStr
  \/ OtherPushBytes

SpecEq == InitEq /\ [][NextEq]_vars

\* ------------------------------- SpecConv: one value, read as text
\* The value is built from a string, with From<Vec<u8>>, or directly with the
\* public NotUtf8 variant (which may then hold valid UTF-8), and pushed to.
InitConv ==
  /\ \/ \E s \in Strings : Len(s) <= MaxInit /\ other = from_string(s)
     \/ \E b \in SeqsUpTo(ByteSet, MaxInit) : other \in {from_vec(b), NotUtf8(b)}
  /\ val = Utf8(<<>>)
  /\ last = NoOp

ConvPushChar ==
  \E c \in CharSet :
    /\ Len(other.data) + Len(encode_utf8(c)) <= MaxLen
    /\ other' = push_char(other, c)
    /\ UNCHANGED <<val, last>>

ConvPushStr ==
  \E s \in Strings :
    /\ Len(other.data) + Len(s) <= MaxLen
    /\ other' = push_str(other, s)
    /\ UNCHANGED <<val, last>>

ConvPushBytes ==
  \E b \in ByteArgs :
    /\ Len(other.data) + Len(b) <= MaxLen
    /\ other' = push_bytes(other, b)
    /\ UNCHANGED <<val, last>>

NextConv == ConvPushChar \/ ConvPushStr \/ ConvPushBytes

SpecConv == InitConv /\ [][NextConv]_vars

PushOps == {"push_char", "push_str", "push_bytes"}

\* The char a well-formed sequence encodes.
decode_char(bs) ==
  CASE Len(bs) = 1 -> bs[1]
    [] Len(bs) = 2 -> (bs[1] - 192) * 64 + (bs[2] - 128)
    [] Len(bs) = 3 -> (bs[1] - 224) * 4096 + (bs[2] - 128) * 64 + (bs[3] - 128)
    [] Len(bs) = 4 -> (bs[1] - 240) * 262144 + (bs[2] - 128) * 4096
                      + (bs[3] - 128) * 64 + (bs[4] - 128)

RECURSIVE DecodeChars(_)
\* The chars of bs read as UTF-8: each well-formed sequence gives its char,
\* each ill-formed chunk (the longest prefix of a well-formed sequence, or one
\* byte that starts none) gives U+FFFD.
DecodeChars(bs) ==
  IF bs = <<>> THEN <<>>
  ELSE LET c == next_chunk(bs)
       IN <<IF c.valid THEN decode_char(SubSeq(bs, 1, c.len)) ELSE 65533>>
          \o DecodeChars(SubSeq(bs, c.len + 1, Len(bs)))

RECURSIVE MergedChars(_, _)
\* The chars of bs when every maximal run of ill-formed bytes gives a single
\* U+FFFD: an ill-formed chunk right after another one adds nothing.
MergedChars(bs, prevBad) ==
  IF bs = <<>> THEN <<>>
  ELSE LET c == next_chunk(bs)
           rest == SubSeq(bs, c.len + 1, Len(bs))
       IN IF c.valid
          THEN <<decode_char(SubSeq(bs, 1, c.len))>> \o MergedChars(rest, FALSE)
          ELSE (IF prevBad THEN <<>> ELSE <<65533>>) \o MergedChars(rest, TRUE)

\* ---------------------------------------------------------------- C1
\* C1 as stated: after any push on a NotUtf8 value the value is still NotUtf8.
C1_Original ==
  (last.op \in PushOps /\ last.pre.tag = "NotUtf8") => val.tag = "NotUtf8"

\* C1 amended: a NotUtf8 value stays NotUtf8 after push_char, push_str and a
\* push_bytes of bytes that are valid UTF-8 on their own; a push_bytes of bytes
\* that are not valid on their own classifies the whole content again, so the
\* value becomes Utf8 exactly when the whole content is then valid UTF-8.
C1_Amended ==
  (last.op \in PushOps /\ last.pre.tag = "NotUtf8") =>
    (val.tag = "Utf8" <=>
       /\ last.op = "push_bytes"
       /\ ~from_utf8_ok(last.arg)
       /\ from_utf8_ok(as_bytes(val)))

C1_Witness ==
  /\ last.op = "push_bytes"
  /\ last.pre.tag = "NotUtf8"
  /\ ~from_utf8_ok(last.arg)
  /\ val.tag = "Utf8"

\* ---------------------------------------------------------------- C2
\* C2: whenever the value is Utf8, its payload is valid UTF-8.
C2_TextIsValid == val.tag = "Utf8" => from_utf8_ok(val.data)

C2_Witness ==
  /\ last.op = "push_bytes"
  /\ last.pre.tag = "Utf8"
  /\ Len(last.pre.data) > 0
  /\ Len(last.arg) > 1
  /\ val.tag = "Utf8"

\* ---------------------------------------------------------------- C3
\* C3: a value built from the bytes b reads back, with as_bytes, as b.
C3_RoundTrip == last.op = "from_vec" => as_bytes(val) = last.arg

C3_Witness ==
  /\ last.op = "from_vec"
  /\ Len(last.arg) = MaxInit
  /\ ~from_utf8_ok(last.arg)
  /\ as_bytes(val) = last.arg

\* ---------------------------------------------------------------- C4
\* C4: a value built from the bytes b is Utf8 exactly when b is valid UTF-8;
\* as_utf8 then gives the string of the chars b decodes to, whose bytes are b,
\* and gives None when b is not valid.
C4_Classification ==
  last.op = "from_vec" =>
    IF from_utf8_ok(last.arg)
    THEN /\ val.tag = "Utf8"
         /\ as_utf8(val) = Some(EncodeStr(DecodeChars(last.arg)))
         /\ as_utf8(val) = Some(last.arg)
    ELSE /\ val.tag = "NotUtf8"
         /\ as_utf8(val) = None

C4_Witness ==
  /\ last.op = "from_vec"
  /\ Len(last.arg) > 1
  /\ ~from_utf8_ok(last.arg)
  /\ as_utf8(val) = None

\* ---------------------------------------------------------------- C5
\* C5: two values are equal exactly when their flat bytes are equal, whatever
\* their variants, and equal values feed the hasher the same input.
C5_EqByBytes ==
  /\ eq(val, other) <=> as_bytes(val) = as_bytes(other)
  /\ eq(other, val) <=> as_bytes(val) = as_bytes(other)
  /\ eq(val, other) => hash(val) = hash(other)

C5_Witness ==
  /\ eq(val, other)
  /\ val.tag = "Utf8"
  /\ other.tag = "NotUtf8"
  /\ Len(as_bytes(val)) > 1
  /\ hash(val) = hash(other)

\* ---------------------------------------------------------------- C6
\* C6: push_bytes(b) on a Utf8 value, with b not valid UTF-8 on its own, gives
\* a NotUtf8 value whose flat bytes are the old content followed by b.
C6_Downgrade ==
  (last.op = "push_bytes" /\ last.pre.tag = "Utf8" /\ ~from_utf8_ok(last.arg)) =>
    /\ val.tag = "NotUtf8"
    /\ as_bytes(val) = as_bytes(last.pre) \o last.arg

\* The appended bytes are a truncated sequence: a lead byte with nothing after.
C6_Witness ==
  /\ last.op = "push_bytes"
  /\ last.pre.tag = "Utf8"
  /\ Len(last.pre.data) > 0
  /\ last.arg = <<195>>
  /\ val.tag = "NotUtf8"

\* ---------------------------------------------------------------- C7
\* C7: a push of input that is valid text on its own keeps the variant and
\* appends the UTF-8 encoding of the input to the flat bytes.
C7_ValidAppend ==
  /\ last.op = "push_char" =>
       /\ val.tag = last.pre.tag
       /\ as_bytes(val) = as_bytes(last.pre) \o encode_utf8(last.arg[1])
  /\ last.op = "push_str" =>
       /\ val.tag = last.pre.tag
       /\ as_bytes(val) = as_bytes(last.pre) \o last.arg
  /\ (last.op = "push_bytes" /\ from_utf8_ok(last.arg)) =>
       /\ val.tag = last.pre.tag
       /\ as_bytes(val) = as_bytes(last.pre) \o last.arg

C7_Witness ==
  /\ last.op = "push_char"
  /\ last.arg[1] > 127
  /\ last.pre.tag = "NotUtf8"
  /\ val.tag = "NotUtf8"

\* ---------------------------------------------------------------- C8
\* What C8 holds of one value when the text expected is `expected`.
LossyIs(v, expected) ==
  /\ as_utf8_lossy(v).str = expected
  /\ into_string(v) = expected
  /\ v.tag = "Utf8" => (expected = v.data /\ as_utf8_lossy(v).borrowed)

\* C8 as stated: the lossy read and the conversion to a String give the
\* content with every maximal run of invalid bytes replaced by one U+FFFD.
C8_Original == LossyIs(other, EncodeStr(MergedChars(as_bytes(other), FALSE)))

\* C8 amended: the lossy read and the conversion to a String both give the
\* lossy decoding of the flat bytes, which is the text itself for a Utf8 value
\* and, for a NotUtf8 value, the content with every well-formed sequence kept
\* and one U+FFFD for each ill-formed chunk, a chunk being the longest prefix
\* of a well-formed sequence or a single byte that starts none (so two
\* adjacent bad bytes such as FF FF give two U+FFFD, not one).
C8_Amended == LossyIs(other, EncodeStr(DecodeChars(as_bytes(other))))

\* A truncated three byte sequence followed by a byte that starts nothing.
C8_Witness ==
  /\ other = NotUtf8(<<226, 130, 255>>)
  /\ into_string(other) = REPLACEMENT \o REPLACEMENT
  /\ as_utf8_lossy(other).str = REPLACEMENT \o REPLACEMENT

\* ---------------------------------------------------------------- C9
\* C9: a value built with From and pushed to is NotUtf8 only if its flat bytes
\* are not valid UTF-8.
C9_BytesIsInvalid == val.tag = "NotUtf8" => ~from_utf8_ok(as_bytes(val))

C9_Witness ==
  /\ last.op = "push_str"
  /\ Len(last.arg) > 0
  /\ last.pre.tag = "NotUtf8"
  /\ val.tag = "NotUtf8"

\* ---------------------------------------------------------------- C10
\* C10: push_str(s) leaves the value as push_bytes of the bytes of s does, and
\* push_char(c) leaves it as push_str of the one char string c does.
C10_Wrappers ==
  /\ last.op = "push_str" => val = push_bytes(last.pre, last.arg)
  /\ last.op = "push_char" => val = push_str(last.pre, EncodeStr(last.arg))
  /\ \A s \in Strings : push_str(val, s) = push_bytes(val, s)
  /\ \A c \in CharSet : push_char(val, c) = push_str(val, EncodeStr(<<c>>))

C10_Witness ==
  /\ last.op = "push_str"
  /\ Len(last.arg) > 1
  /\ last.pre.tag = "Utf8"
  /\ val = push_bytes(last.pre, last.arg)

TypeOK ==
  /\ val.tag \in {"Utf8", "NotUtf8"}
  /\ other.tag \in {"Utf8", "NotUtf8"}
  /\ last.op \in {"none", "from_string", "from_vec", "push_char", "push_str", "push_bytes"}

====
